---- MODULE Spec2Model ----
(***************************************************************************)
(* RPCStream (rpc/stream/rpc.go): the manager of the header, log and       *)
(* pending-transaction streams of the JSON-RPC server, its lazily started  *)
(* event-feed subscriptions, its demultiplexing goroutine and Close().     *)
(* Callers are goroutines of the RPC layer; every access to shared memory  *)
(* and every call to the event feed is one step.                           *)
(***************************************************************************)
EXTENDS Integers, Sequences, FiniteSets, TLC

\* ---------------------------------------------------------------- bounds
MaxCloses == 2      \* Close() calls of the single caller
MaxRaceCloses == 1  \* Close() calls of the concurrent callers
MaxLiveCloses == 1  \* Close() calls while the feed delivers events
MaxLiveEvents == 1  \* events the feed delivers around a Close()
MaxIngest == 2      \* ListenPendingTx calls
MaxEvents == 2      \* events the feed delivers over all queues
MaxQueue == 2       \* events waiting in one delivery queue
MaxLogs == 2        \* logs decoded from one transaction
MaxBatch == 2       \* items in one Add call on the bare stream
MaxAppended == 6    \* items added to the bare stream
MaxSegmentSize == 2 \* segment size of the bare stream
MaxSegments == 2    \* capacity of the bare stream, in segments
MaxLimit == 4       \* limit of one ReadFrom call on the bare stream

\* ------------------------------------------------------ program constants
headerStreamSegmentSize == 128
headerStreamCapacity == 128 * 32
txStreamSegmentSize == 1024
txStreamCapacity == 1024 * 32
logStreamSegmentSize == 2048
logStreamCapacity == 2048 * 32

Nil == 0
\* the goroutines that call the manager's public methods; a demux goroutine,
\* a stream object and a delivery queue carry the name of the caller that made them
Callers == {1, 2}
Hashes == {"h1", "h2"}
Errs == {"errA", "errB"}

Last(s) == s[Len(s)]

Min(a, b) == IF a < b THEN a ELSE b

RECURSIVE SumLen(_)
SumLen(segs) == IF segs = << >> THEN 0 ELSE Len(Head(segs)) + SumLen(Tail(segs))

RECURSIVE Flatten(_)
Flatten(segs) == IF segs = << >> THEN << >> ELSE Head(segs) \o Flatten(Tail(segs))

\* ------------------------------------------------- BoundedEventStream<T>
\* next: the sequence counter; segments: the retained segments, oldest
\* first; segmentOffset: the number of segments evicted so far.
NewStream(segmentSize, capacity) ==
  [segmentSize |-> segmentSize, capacity |-> capacity,
   segments |-> << >>, segmentOffset |-> 0, next |-> 0]

StreamLen(s) == SumLen(s.segments)

StreamItems(s) == Flatten(s.segments)

\* position of the oldest retained item
StreamFirst(s) == s.next - StreamLen(s)

\* an Add that writes the new item at the front of the open segment
AddOne_Prepend(s, v) ==
  IF s.segments = << >> \/ Len(Last(s.segments)) = s.segmentSize
  THEN [s EXCEPT !.segments = Append(@, <<v>>), !.next = @ + 1]
  ELSE [s EXCEPT !.segments[Len(s.segments)] = <<v>> \o @, !.next = @ + 1]

AddOne(s, v) ==
  IF s.segments = << >> \/ Len(Last(s.segments)) = s.segmentSize
  THEN [s EXCEPT !.segments = Append(@, <<v>>), !.next = @ + 1]
  ELSE [s EXCEPT !.segments[Len(s.segments)] = Append(@, v), !.next = @ + 1]

\* eviction of at most one segment per Add
EvictOnce(s) ==
  IF StreamLen(s) > s.capacity
  THEN [s EXCEPT !.segments = Tail(@), !.segmentOffset = @ + 1]
  ELSE s

RECURSIVE Evict(_)
Evict(s) ==
  IF StreamLen(s) > s.capacity
  THEN Evict([s EXCEPT !.segments = Tail(@), !.segmentOffset = @ + 1])
  ELSE s

RECURSIVE AddAll(_, _)
AddAll(s, items) ==
  IF items = << >> THEN s ELSE AddAll(AddOne(s, Head(items)), Tail(items))

StreamAdd(s, items) == Evict(AddAll(s, items))

\* ReadFrom that keeps the requested position when it has been evicted, and so
\* finds nothing there
ReadFrom_NoResume(s, position, limit) ==
  LET first == StreamFirst(s)
      n == IF position < first THEN 0 ELSE Min(limit, s.next - position)
  IN [start |-> position,
      items |-> IF n = 0 THEN << >>
                ELSE SubSeq(StreamItems(s), position - first + 1, position - first + n),
      next |-> position + n]

\* ReadFrom(position, limit): the run of up to limit items at or after
\* position, resumed at the oldest retained item when position was evicted,
\* and the position to resume from
ReadFrom(s, position, limit) ==
  LET first == StreamFirst(s)
      start == IF position < first THEN first ELSE position
      n == Min(limit, s.next - start)
  IN [start |-> start,
      items |-> SubSeq(StreamItems(s), start - first + 1, start - first + n),
      next |-> start + n]

\* ------------------------------------------------------------------ state
VARIABLES
  headerStream,     \* RPCStream.headerStream: Nil or a header stream object
  logStream,        \* RPCStream.logStream: Nil or a log stream object
  pendingTxStream,  \* RPCStream.pendingTxStream, made by NewRPCStreams
  hdrObjs,          \* heap: header stream objects, keyed by their creator
  logObjs,          \* heap: log stream objects, keyed by their creator
  wg,               \* RPCStream.wg: [counter, waiters]
  feed,             \* evtClient: the requests it has received
  chBlocks,         \* queues returned by Subscribe(blockEvents), by subscriber call
  chLogs,           \* queues returned by Subscribe(evmEvents), by subscriber call
  pc,               \* position of each caller
  cur,              \* the call each caller is in
  ret,              \* what the last stream accessor call returned, and to which call
  task,             \* the goroutines running start(), keyed by their spawner
  closeLog,         \* history: the Close() calls that returned
  ingested,         \* history: the hashes passed to ListenPendingTx, in call order
  consumed,         \* history: the events start() has received, in order
  st,               \* a bare stream (small segment size and capacity)
  appended,         \* history: the items added to st, in order
  rd                \* a reader of st: its cursor and what it has read

mgrVars == <<headerStream, logStream, pendingTxStream, hdrObjs, logObjs>>
feedVars == <<feed, chBlocks, chLogs>>
callVars == <<pc, cur, ret>>
histVars == <<closeLog, ingested, consumed>>
bareVars == <<st, appended, rd>>
vars == <<headerStream, logStream, pendingTxStream, hdrObjs, logObjs, wg, feed,
          chBlocks, chLogs, pc, cur, ret, task, closeLog, ingested, consumed,
          st, appended, rd>>

NoCall == [op |-> "none", init |-> FALSE, unsub |-> FALSE]
NoRet == [op |-> "none", val |-> Nil, panic |-> FALSE]

\* NewRPCStreams: only the pending-tx stream exists
InitManager ==
  /\ headerStream = Nil
  /\ logStream = Nil
  /\ pendingTxStream = NewStream(txStreamSegmentSize, txStreamCapacity)
  /\ hdrObjs = << >>
  /\ logObjs = << >>
  /\ wg = [counter |-> 0, waiters |-> 0]
  /\ feed = [subBlocks |-> 0, subEvm |-> 0, unsubs |-> 0, lastUnsub |-> "none",
             delivered |-> 0]
  /\ chBlocks = << >>
  /\ chLogs = << >>
  /\ pc = [c \in Callers |-> "idle"]
  /\ cur = [c \in Callers |-> NoCall]
  /\ ret = NoRet
  /\ task = << >>
  /\ closeLog = << >>
  /\ ingested = << >>
  /\ consumed = << >>

\* a reader that has not read yet: its cursor is position 0
NewReader ==
  [pos |-> 0, reads |-> 0, req |-> 0, first |-> 0, start |-> 0, items |-> << >>,
   got |-> << >>, jumped |-> FALSE]

Init ==
  /\ InitManager
  /\ st = NewStream(2, 4)
  /\ appended = << >>
  /\ rd = NewReader


\* ------------------------------------------------------------- event feed
NewQueue == [q |-> << >>, closed |-> FALSE, active |-> TRUE]

Deactivate(ch) == [x \in DOMAIN ch |-> [ch[x] EXCEPT !.active = FALSE]]

UnsubResults == {"ok"} \cup Errs

\* evtClient.UnsubscribeAll(ctx, streamSubscriberName) answering r
UnsubscribeAll(r) ==
  /\ feed' = [feed EXCEPT !.unsubs = @ + 1, !.lastUnsub = r]
  /\ IF r = "ok"
     THEN /\ chBlocks' = Deactivate(chBlocks)
          /\ chLogs' = Deactivate(chLogs)
     ELSE UNCHANGED <<chBlocks, chLogs>>

\* payloads the feed can put on the 'new block' queue: at most one fault each
BlockShapes ==
  {[data |-> "NewBlock", resolver |-> "ok", bech32 |-> "ok"],
   [data |-> "Other", resolver |-> "ok", bech32 |-> "ok"],
   [data |-> "NewBlock", resolver |-> "err", bech32 |-> "ok"],
   [data |-> "NewBlock", resolver |-> "ok", bech32 |-> "err"]}

\* payloads the feed can put on the 'evm transaction' queue
TxShapes ==
  {[hasHash |-> TRUE, data |-> "Tx", height |-> "ok", decode |-> "ok", nlogs |-> n] :
      n \in 0..MaxLogs}
  \cup
  {[hasHash |-> FALSE, data |-> "Tx", height |-> "ok", decode |-> "ok", nlogs |-> MaxLogs],
   [hasHash |-> FALSE, data |-> "Other", height |-> "ok", decode |-> "ok", nlogs |-> MaxLogs],
   [hasHash |-> TRUE, data |-> "Other", height |-> "ok", decode |-> "ok", nlogs |-> MaxLogs],
   [hasHash |-> TRUE, data |-> "Tx", height |-> "err", decode |-> "ok", nlogs |-> MaxLogs],
   [hasHash |-> TRUE, data |-> "Tx", height |-> "ok", decode |-> "err", nlogs |-> MaxLogs]}

\* the feed publishes a new-block event to subscription x
FeedBlock(x, max) ==
  /\ x \in DOMAIN chBlocks
  /\ chBlocks[x].active /\ ~chBlocks[x].closed
  /\ Len(chBlocks[x].q) < MaxQueue
  /\ feed.delivered < max
  /\ \E sh \in BlockShapes :
       chBlocks' = [chBlocks EXCEPT ![x].q =
                      Append(@, [kind |-> "block", id |-> feed.delivered + 1, sh |-> sh])]
  /\ feed' = [feed EXCEPT !.delivered = @ + 1]
  /\ UNCHANGED <<mgrVars, wg, chLogs, callVars, task, histVars, bareVars>>

\* the feed publishes a transaction event to subscription x
FeedTx(x, max) ==
  /\ x \in DOMAIN chLogs
  /\ chLogs[x].active /\ ~chLogs[x].closed
  /\ Len(chLogs[x].q) < MaxQueue
  /\ feed.delivered < max
  /\ \E sh \in TxShapes :
       chLogs' = [chLogs EXCEPT ![x].q =
                    Append(@, [kind |-> "tx", id |-> feed.delivered + 1, sh |-> sh])]
  /\ feed' = [feed EXCEPT !.delivered = @ + 1]
  /\ UNCHANGED <<mgrVars, wg, chBlocks, callVars, task, histVars, bareVars>>

\* the feed closes a delivery queue
FeedCloseBlocks(x) ==
  /\ x \in DOMAIN chBlocks
  /\ ~chBlocks[x].closed
  /\ chBlocks' = [chBlocks EXCEPT ![x].closed = TRUE, ![x].active = FALSE]
  /\ UNCHANGED <<mgrVars, wg, feed, chLogs, callVars, task, histVars, bareVars>>

FeedCloseLogs(x) ==
  /\ x \in DOMAIN chLogs
  /\ ~chLogs[x].closed
  /\ chLogs' = [chLogs EXCEPT ![x].closed = TRUE, ![x].active = FALSE]
  /\ UNCHANGED <<mgrVars, wg, feed, chBlocks, callVars, task, histVars, bareVars>>

\* ---------------------------------------------------------------- callers
Returns(c, op, val) ==
  /\ pc' = [pc EXCEPT ![c] = "idle"]
  /\ cur' = [cur EXCEPT ![c] = NoCall]
  /\ ret' = [op |-> op, val |-> val, panic |-> FALSE]

\* panic(err): the call ends without a value
Panics(c) ==
  /\ pc' = [pc EXCEPT ![c] = "idle"]
  /\ cur' = [cur EXCEPT ![c] = NoCall]
  /\ ret' = [op |-> cur[c].op, val |-> Nil, panic |-> TRUE]

Goes(c, to) ==
  /\ pc' = [pc EXCEPT ![c] = to]
  /\ UNCHANGED <<cur, ret>>

\* HeaderStream() / LogStream() setting up whether or not it was done before
StreamCall_NoCheck(c, name) ==
  /\ pc[c] = "idle"
  /\ cur' = [cur EXCEPT ![c] = [op |-> name, init |-> FALSE, unsub |-> FALSE]]
  /\ pc' = [pc EXCEPT ![c] = "newHeader"]
  /\ UNCHANGED ret
  /\ UNCHANGED <<mgrVars, wg, feedVars, task, histVars, bareVars>>

\* HeaderStream() / LogStream() up to the check of initSubscriptions
StreamCall(c, name) ==
  /\ pc[c] = "idle"
  /\ cur' = [cur EXCEPT ![c] = [op |-> name, init |-> headerStream # Nil, unsub |-> FALSE]]
  /\ pc' = [pc EXCEPT ![c] = IF headerStream # Nil THEN "return" ELSE "newHeader"]
  /\ UNCHANGED ret
  /\ UNCHANGED <<mgrVars, wg, feedVars, task, histVars, bareVars>>

\* s.headerStream = NewStream[RPCHeader](...)
NewHeader(c) ==
  /\ pc[c] = "newHeader"
  /\ hdrObjs' = hdrObjs @@ (c :> NewStream(headerStreamSegmentSize, headerStreamCapacity))
  /\ headerStream' = c
  /\ Goes(c, "newLog")
  /\ UNCHANGED <<logStream, pendingTxStream, logObjs, wg, feedVars, task, histVars, bareVars>>

\* s.logStream = NewStream[*ethtypes.Log](...)
NewLog(c) ==
  /\ pc[c] = "newLog"
  /\ logObjs' = logObjs @@ (c :> NewStream(logStreamSegmentSize, logStreamCapacity))
  /\ logStream' = c
  /\ Goes(c, "subBlocks")
  /\ UNCHANGED <<headerStream, pendingTxStream, hdrObjs, wg, feedVars, task, histVars, bareVars>>

\* chBlocks, err := s.evtClient.Subscribe(ctx, ..., blockEvents, ...); panic on err
SubscribeBlocks(c) ==
  /\ pc[c] = "subBlocks"
  /\ feed' = [feed EXCEPT !.subBlocks = @ + 1]
  /\ \/ /\ chBlocks' = chBlocks @@ (c :> NewQueue)
        /\ Goes(c, "subEvm")
     \/ /\ UNCHANGED chBlocks
        /\ Panics(c)
  /\ UNCHANGED <<mgrVars, wg, chLogs, task, histVars, bareVars>>

\* chLogs, err := s.evtClient.Subscribe(ctx, ..., evmEvents, ...)
SubscribeEvm(c) ==
  /\ pc[c] = "subEvm"
  /\ feed' = [feed EXCEPT !.subEvm = @ + 1]
  /\ \/ /\ chLogs' = chLogs @@ (c :> NewQueue)
        /\ Goes(c, "go")
     \/ /\ UNCHANGED chLogs
        /\ Goes(c, "subFailed")
  /\ UNCHANGED <<mgrVars, wg, chBlocks, task, histVars, bareVars>>

\* the second Subscribe failed: panic with the first subscription left alone
SubscribeFailed_NoUnsub(c) ==
  /\ pc[c] = "subFailed"
  /\ Panics(c)
  /\ UNCHANGED <<mgrVars, wg, feedVars, task, histVars, bareVars>>

\* the second Subscribe failed: UnsubscribeAll (its error is only logged), panic
SubscribeFailed(c) ==
  /\ pc[c] = "subFailed"
  /\ \E r \in UnsubResults : UnsubscribeAll(r)
  /\ Panics(c)
  /\ UNCHANGED <<mgrVars, wg, task, histVars, bareVars>>

\* go s.start(&s.wg, chBlocks, chLogs)
Go(c) ==
  /\ pc[c] = "go"
  /\ task' = task @@ (c :> [pc |-> "start", chBlocks |-> "open", chLogs |-> "open"])
  /\ Goes(c, "return")
  /\ UNCHANGED <<mgrVars, wg, feedVars, histVars, bareVars>>

\* return s.headerStream / return s.logStream
Return(c) ==
  /\ pc[c] = "return"
  /\ Returns(c, cur[c].op, IF cur[c].op = "HeaderStream" THEN headerStream ELSE logStream)
  /\ UNCHANGED <<mgrVars, wg, feedVars, task, histVars, bareVars>>


\* a Close() call returns val: it is recorded in closeLog
CloseReturns(c, init, unsub, val) ==
  /\ pc' = [pc EXCEPT ![c] = "idle"]
  /\ cur' = [cur EXCEPT ![c] = NoCall]
  /\ UNCHANGED ret
  /\ closeLog' = Append(closeLog, [init |-> init, unsub |-> unsub, val |-> val])

ClosesInFlight == Cardinality({c \in Callers : cur[c].op = "Close"})

\* Close() without the check of s.headerStream
CloseStart_NoCheck(c, max) ==
  /\ pc[c] = "idle"
  /\ Len(closeLog) + ClosesInFlight < max
  /\ pc' = [pc EXCEPT ![c] = "closeUnsub"]
  /\ cur' = [cur EXCEPT ![c] = [op |-> "Close", init |-> headerStream # Nil, unsub |-> FALSE]]
  /\ UNCHANGED <<ret, closeLog>>
  /\ UNCHANGED <<mgrVars, wg, feedVars, task, ingested, consumed, bareVars>>

\* Close(): if s.headerStream == nil { return nil }; at most max calls are made
CloseStart(c, max) ==
  /\ pc[c] = "idle"
  /\ Len(closeLog) + ClosesInFlight < max
  /\ IF headerStream = Nil
     THEN CloseReturns(c, FALSE, FALSE, "nil")
     ELSE /\ pc' = [pc EXCEPT ![c] = "closeUnsub"]
          /\ cur' = [cur EXCEPT ![c] = [op |-> "Close", init |-> TRUE, unsub |-> FALSE]]
          /\ UNCHANGED <<ret, closeLog>>
  /\ UNCHANGED <<mgrVars, wg, feedVars, task, ingested, consumed, bareVars>>

\* Close() that goes on to wait when UnsubscribeAll failed, and returns nil
CloseUnsubscribe_Swallow(c) ==
  /\ pc[c] = "closeUnsub"
  /\ \E r \in UnsubResults : UnsubscribeAll(r)
  /\ pc' = [pc EXCEPT ![c] = "closeWait"]
  /\ cur' = [cur EXCEPT ![c].unsub = TRUE]
  /\ UNCHANGED <<ret, closeLog>>
  /\ UNCHANGED <<mgrVars, wg, task, ingested, consumed, bareVars>>

\* if err := s.evtClient.UnsubscribeAll(...); err != nil { return err }
CloseUnsubscribe(c) ==
  /\ pc[c] = "closeUnsub"
  /\ \E r \in UnsubResults :
       /\ UnsubscribeAll(r)
       /\ IF r = "ok"
          THEN /\ pc' = [pc EXCEPT ![c] = "closeWait"]
               /\ cur' = [cur EXCEPT ![c].unsub = TRUE]
               /\ UNCHANGED <<ret, closeLog>>
          ELSE CloseReturns(c, cur[c].init, TRUE, r)
  /\ UNCHANGED <<mgrVars, wg, task, ingested, consumed, bareVars>>

\* s.wg.Wait(): returns at once when the counter is zero, else parks the caller
CloseWait(c) ==
  /\ pc[c] = "closeWait"
  /\ IF wg.counter = 0
     THEN /\ CloseReturns(c, cur[c].init, cur[c].unsub, "nil")
          /\ UNCHANGED wg
     ELSE /\ wg' = [wg EXCEPT !.waiters = @ + 1]
          /\ Goes(c, "closeBlocked")
          /\ UNCHANGED closeLog
  /\ UNCHANGED <<mgrVars, feedVars, task, ingested, consumed, bareVars>>

\* s.wg.Wait() after its wake-up: sync.WaitGroup panics when the group was
\* reused before Wait returned; otherwise Close returns nil
CloseWoken(c) ==
  /\ pc[c] = "closeWoken"
  /\ IF wg.counter # 0 \/ wg.waiters # 0
     THEN CloseReturns(c, cur[c].init, cur[c].unsub, "panic")
     ELSE CloseReturns(c, cur[c].init, cur[c].unsub, "nil")
  /\ UNCHANGED <<mgrVars, wg, feedVars, task, ingested, consumed, bareVars>>

\* PendingTxStream()
PendingTxStream(c) ==
  /\ pc[c] = "idle"
  /\ Returns(c, "PendingTxStream", "pendingTxStream")
  /\ UNCHANGED <<mgrVars, wg, feedVars, task, histVars, bareVars>>

\* ListenPendingTx that sets up the subscriptions like the other accessors
ListenPendingTx_Init(c, hash) ==
  /\ pc[c] = "idle"
  /\ Len(ingested) < MaxIngest
  /\ pendingTxStream' = StreamAdd(pendingTxStream, <<hash>>)
  /\ ingested' = Append(ingested, hash)
  /\ pc' = [pc EXCEPT ![c] = IF headerStream # Nil THEN "return" ELSE "newHeader"]
  /\ cur' = [cur EXCEPT ![c] = [op |-> "HeaderStream", init |-> headerStream # Nil,
                                 unsub |-> FALSE]]
  /\ UNCHANGED <<headerStream, logStream, hdrObjs, logObjs, wg, feedVars, ret, task,
                 closeLog, consumed, bareVars>>

\* ListenPendingTx(hash): s.PendingTxStream().Add(hash)
ListenPendingTx(c, hash) ==
  /\ pc[c] = "idle"
  /\ Len(ingested) < MaxIngest
  /\ pendingTxStream' = StreamAdd(pendingTxStream, <<hash>>)
  /\ ingested' = Append(ingested, hash)
  /\ UNCHANGED <<headerStream, logStream, hdrObjs, logObjs, wg, feedVars, callVars, task,
                 closeLog, consumed, bareVars>>

\* ------------------------------------------------------- start(), the demux
\* wg.Add(1)
TaskAdd(t) ==
  /\ t \in DOMAIN task
  /\ task[t].pc = "start"
  /\ wg' = [wg EXCEPT !.counter = @ + 1]
  /\ task' = [task EXCEPT ![t].pc = "loop"]
  /\ UNCHANGED <<mgrVars, feedVars, callVars, histVars, bareVars>>

\* if chBlocks == nil && chLogs == nil { break }
\* the loop left as soon as one of the two channels is nil
AfterSelect_Either(tk) ==
  IF tk.chBlocks = "nil" \/ tk.chLogs = "nil" THEN [tk EXCEPT !.pc = "deferred"] ELSE tk

AfterSelect(tk) ==
  IF tk.chBlocks = "nil" /\ tk.chLogs = "nil" THEN [tk EXCEPT !.pc = "deferred"] ELSE tk

\* the new-block case up to the Add: where the event's processing ends
BlockOutcome(ev) ==
  IF ev.sh.data # "NewBlock" THEN "mismatch"            \* logged, continue
  ELSE IF ev.sh.resolver # "ok" THEN "resolverFailed"   \* logged, continue
  ELSE IF ev.sh.bech32 # "ok" THEN "bech32Failed"       \* logged, continue
  ELSE "added"

RPCHeader(ev) == [block |-> ev.id]

\* case ev, ok := <-chBlocks
DemuxBlock(t) ==
  /\ t \in DOMAIN task
  /\ task[t].pc = "loop"
  /\ task[t].chBlocks = "open"
  /\ IF chBlocks[t].q # << >>
     THEN LET ev == Head(chBlocks[t].q) IN
          /\ chBlocks' = [chBlocks EXCEPT ![t].q = Tail(@)]
          /\ consumed' = Append(consumed, [ev |-> ev, out |-> BlockOutcome(ev),
                                           solo |-> task[t].chLogs = "nil"])
          /\ IF BlockOutcome(ev) = "added"
             THEN hdrObjs' = [hdrObjs EXCEPT ![headerStream] = StreamAdd(@, <<RPCHeader(ev)>>)]
             ELSE UNCHANGED hdrObjs
          /\ UNCHANGED task
     ELSE /\ chBlocks[t].closed
          /\ task' = [task EXCEPT ![t] = AfterSelect([@ EXCEPT !.chBlocks = "nil"])]
          /\ UNCHANGED <<chBlocks, consumed, hdrObjs>>
  /\ UNCHANGED <<headerStream, logStream, pendingTxStream, logObjs, wg, feed, chLogs,
                 callVars, closeLog, ingested, bareVars>>

\* the transaction case with the decoder's error ignored
TxOutcome_IgnoreDecodeErr(ev) ==
  IF ~ev.sh.hasHash THEN "ignored"
  ELSE IF ev.sh.data # "Tx" THEN "mismatch"
  ELSE IF ev.sh.height # "ok" THEN "heightFailed"
  ELSE "added"

\* the transaction case with the payload type checked before the attribute
TxOutcome_TypeFirst(ev) ==
  IF ev.sh.data # "Tx" THEN "mismatch"
  ELSE IF ~ev.sh.hasHash THEN "ignored"
  ELSE IF ev.sh.height # "ok" THEN "heightFailed"
  ELSE IF ev.sh.decode # "ok" THEN "decodeFailed"
  ELSE "added"

\* the transaction case up to the Add: where the event's processing ends
TxOutcome(ev) ==
  IF ~ev.sh.hasHash THEN "ignored"                      \* continue
  ELSE IF ev.sh.data # "Tx" THEN "mismatch"             \* logged, continue
  ELSE IF ev.sh.height # "ok" THEN "heightFailed"       \* continue
  ELSE IF ev.sh.decode # "ok" THEN "decodeFailed"       \* decoder called; logged, continue
  ELSE "added"                                          \* decoder called

\* only the first log of the transaction
TxLogs_FirstOnly(ev) == [i \in 1..Min(1, ev.sh.nlogs) |-> [tx |-> ev.id, index |-> i]]

\* the logs of the transaction, newest first
TxLogs_Reversed(ev) ==
  [i \in 1..ev.sh.nlogs |-> [tx |-> ev.id, index |-> ev.sh.nlogs + 1 - i]]

\* txLogs of DecodeTxLogsFromEvents, in decoder order
TxLogs(ev) == [i \in 1..ev.sh.nlogs |-> [tx |-> ev.id, index |-> i]]

\* case ev, ok := <-chLogs
DemuxLog(t) ==
  /\ t \in DOMAIN task
  /\ task[t].pc = "loop"
  /\ task[t].chLogs = "open"
  /\ IF chLogs[t].q # << >>
     THEN LET ev == Head(chLogs[t].q) IN
          /\ chLogs' = [chLogs EXCEPT ![t].q = Tail(@)]
          /\ consumed' = Append(consumed, [ev |-> ev, out |-> TxOutcome(ev),
                                           solo |-> task[t].chBlocks = "nil"])
          /\ IF TxOutcome(ev) = "added"
             THEN logObjs' = [logObjs EXCEPT ![logStream] = StreamAdd(@, TxLogs(ev))]
             ELSE UNCHANGED logObjs
          /\ UNCHANGED task
     ELSE /\ chLogs[t].closed
          /\ task' = [task EXCEPT ![t] = AfterSelect([@ EXCEPT !.chLogs = "nil"])]
          /\ UNCHANGED <<chLogs, consumed, logObjs>>
  /\ UNCHANGED <<headerStream, logStream, pendingTxStream, hdrObjs, wg, feed, chBlocks,
                 callVars, closeLog, ingested, bareVars>>

\* defer: wg.Done(); releasing the counter wakes the callers parked in Wait
\* a wg.Done() that releases the counter and leaves the parked callers parked
TaskDone_NoWake(t) ==
  /\ t \in DOMAIN task
  /\ task[t].pc = "deferred"
  /\ wg' = [wg EXCEPT !.counter = @ - 1]
  /\ task' = [task EXCEPT ![t].pc = "unsub"]
  /\ UNCHANGED <<mgrVars, feedVars, callVars, histVars, bareVars>>

TaskDone(t) ==
  /\ t \in DOMAIN task
  /\ task[t].pc = "deferred"
  /\ IF wg.counter = 1
     THEN /\ wg' = [counter |-> 0, waiters |-> 0]
          /\ pc' = [c \in Callers |-> IF pc[c] = "closeBlocked" THEN "closeWoken" ELSE pc[c]]
     ELSE /\ wg' = [wg EXCEPT !.counter = @ - 1]
          /\ UNCHANGED pc
  /\ task' = [task EXCEPT ![t].pc = "unsub"]
  /\ UNCHANGED <<mgrVars, feedVars, cur, ret, histVars, bareVars>>

\* defer: s.evtClient.UnsubscribeAll(...), its error only logged; the goroutine ends
TaskUnsubscribe(t) ==
  /\ t \in DOMAIN task
  /\ task[t].pc = "unsub"
  /\ \E r \in UnsubResults : UnsubscribeAll(r)
  /\ task' = [task EXCEPT ![t].pc = "exited"]
  /\ UNCHANGED <<mgrVars, wg, callVars, histVars, bareVars>>

\* ------------------------------------------------------- the bare stream
Batches == UNION {[1..n -> {"a", "b"}] : n \in 0..MaxBatch}

\* Add(items...) on the bare stream
BareAdd(items) ==
  /\ Len(appended) + Len(items) <= MaxAppended
  /\ st' = StreamAdd(st, items)
  /\ appended' = appended \o items
  /\ UNCHANGED <<mgrVars, wg, feedVars, callVars, task, histVars, rd>>

\* the reader calls ReadFrom at its cursor and keeps the returned position;
\* a blocking call with nothing to read stays suspended
BareRead(limit, blocking) ==
  LET r == ReadFrom(st, rd.pos, limit) IN
  /\ blocking => r.items # << >>
  /\ rd' = [pos |-> r.next, reads |-> Min(rd.reads + 1, 2), req |-> rd.pos,
            first |-> StreamFirst(st), start |-> r.start, items |-> r.items,
            got |-> rd.got \o r.items,
            jumped |-> rd.jumped \/ r.start # rd.pos]
  /\ UNCHANGED <<mgrVars, wg, feedVars, callVars, task, histVars, st, appended>>

\* ---------------------------------------------------------- specifications
\* HeaderStream() / LogStream() by the callers in C
StreamStep(C) ==
  \/ \E c \in C : StreamCall(c, "HeaderStream")
  \/ \E c \in C : StreamCall(c, "LogStream")
  \/ \E c \in C : NewHeader(c)
  \/ \E c \in C : NewLog(c)
  \/ \E c \in C : SubscribeBlocks(c)
  \/ \E c \in C : SubscribeEvm(c)
  \/ \E c \in C : SubscribeFailed(c)
  \/ \E c \in C : Go(c)
  \/ \E c \in C : Return(c)

\* Close() by the callers in C
CloseStep(C, max) ==
  \/ \E c \in C : CloseStart(c, max)
  \/ \E c \in C : CloseUnsubscribe(c)
  \/ \E c \in C : CloseWait(c)
  \/ \E c \in C : CloseWoken(c)

PendingStep(C) ==
  \/ \E c \in C : PendingTxStream(c)
  \/ \E c \in C, h \in Hashes : ListenPendingTx(c, h)

TaskStep ==
  \/ \E t \in Callers : TaskAdd(t)
  \/ \E t \in Callers : DemuxBlock(t)
  \/ \E t \in Callers : DemuxLog(t)
  \/ \E t \in Callers : TaskDone(t)
  \/ \E t \in Callers : TaskUnsubscribe(t)

FeedStep(max) ==
  \/ \E x \in Callers : FeedBlock(x, max)
  \/ \E x \in Callers : FeedTx(x, max)

FeedCloseStep ==
  \/ \E x \in Callers : FeedCloseBlocks(x)
  \/ \E x \in Callers : FeedCloseLogs(x)

\* the life cycle: one goroutine uses the manager
Next ==
  \/ StreamStep({1})
  \/ CloseStep({1}, MaxCloses)
  \/ PendingStep({1})
  \/ TaskStep
  \/ FeedCloseStep

Spec == Init /\ [][Next]_vars

\* the callers use the manager concurrently
NextRace ==
  \/ StreamStep(Callers)
  \/ CloseStep(Callers, MaxRaceCloses)
  \/ TaskStep
  \/ FeedCloseStep

SpecRace == Init /\ [][NextRace]_vars

\* the demux loop: the feed delivers events to a started manager
NextDemux ==
  \/ StreamStep({1})
  \/ TaskStep
  \/ FeedStep(MaxEvents)
  \/ FeedCloseStep

SpecDemux == Init /\ [][NextDemux]_vars

\* shutdown: Close() on a manager whose feed delivers events. The Go scheduler
\* runs every goroutine that can take a step (the demux task, a caller inside
\* Close), and the feed closes the queues of a cancelled subscription.
NextLive ==
  \/ StreamStep({1})
  \/ CloseStep({1}, MaxLiveCloses)
  \/ TaskStep
  \/ FeedStep(MaxLiveEvents)
  \/ FeedCloseStep

Fairness ==
  /\ WF_vars(TaskStep)
  /\ WF_vars(\E c \in {1} : CloseUnsubscribe(c) \/ CloseWait(c) \/ CloseWoken(c))
  /\ WF_vars(\E x \in {1} : \/ FeedCloseBlocks(x) /\ ~chBlocks[x].active
                            \/ FeedCloseLogs(x) /\ ~chLogs[x].active)

SpecLive == Init /\ [][NextLive]_vars /\ Fairness

InitStream ==
  /\ InitManager
  /\ \E seg \in 1..MaxSegmentSize, n \in 1..MaxSegments : st = NewStream(seg, seg * n)
  /\ appended = << >>
  /\ rd = NewReader

NextStream ==
  \/ \E items \in Batches : BareAdd(items)
  \/ \E limit \in 1..MaxLimit, blocking \in BOOLEAN : BareRead(limit, blocking)

SpecStream == InitStream /\ [][NextStream]_vars


\* ------------------------------------------------------------------ claims

\* C1: for every interleaving of concurrent first calls to HeaderStream() and
\* LogStream(), each of the two Subscribe requests is issued once, one header
\* stream and one log stream object are created and one demux goroutine is
\* started.
C1_SetupOnce ==
  /\ feed.subBlocks <= 1
  /\ feed.subEvm <= 1
  /\ Cardinality(DOMAIN hdrObjs) <= 1
  /\ Cardinality(DOMAIN logObjs) <= 1
  /\ Cardinality(DOMAIN task) <= 1

\* C2: when Close() on an initialized manager has returned nil, the demux
\* goroutine that initSubscriptions started has ended, its own UnsubscribeAll
\* included.
C2_CloseJoinsTask ==
  (closeLog # << >> /\ Last(closeLog).init /\ Last(closeLog).val = "nil")
    => \A t \in DOMAIN task : task[t].pc = "exited"

\* C3: a Close() on a manager whose header and log streams were never accessed
\* returns nil in one step, issues no UnsubscribeAll and changes nothing of the
\* manager, the wait group, the feed or the pending-tx stream.
C3_CloseUninitNoop ==
  [][(headerStream = Nil /\ closeLog' # closeLog)
       => /\ closeLog' = Append(closeLog, [init |-> FALSE, unsub |-> FALSE, val |-> "nil"])
          /\ pc' = pc
          /\ UNCHANGED <<mgrVars, wg, feedVars, task, ingested>>]_vars

\* C3 witness: two Close() calls on a never-accessed manager have returned,
\* after hashes were ingested.
C3_Witness ==
  /\ headerStream = Nil
  /\ Len(closeLog) = 2
  /\ ingested # << >>
  /\ StreamItems(pendingTxStream) = ingested

\* C4: of two Close() calls on an initialized manager, the second returns what
\* the first returned or does nothing (issues no UnsubscribeAll), and it does
\* not panic; stated for the case the claim singles out, a first Close() that
\* unsubscribed and returned nil.
C4_CloseTwice ==
  \A i, j \in 1..Len(closeLog) :
    (i < j /\ closeLog[i].init /\ closeLog[i].val = "nil" /\ closeLog[j].init)
      => /\ closeLog[j].val = "nil" \/ ~closeLog[j].unsub
         /\ closeLog[j].val # "panic"

\* C5: when the feed answers the UnsubscribeAll of a Close() on an initialized
\* manager with an error, Close() returns that error at once and leaves the
\* header, log and pending-tx streams as they were.
C5_CloseSurfacesError ==
  [][\A c \in Callers :
       (pc[c] = "closeUnsub" /\ pc'[c] # "closeUnsub" /\ feed'.lastUnsub \in Errs)
         => /\ pc'[c] = "idle"
            /\ closeLog' = Append(closeLog, [init |-> TRUE, unsub |-> TRUE,
                                             val |-> feed'.lastUnsub])
            /\ UNCHANGED <<mgrVars, wg>>]_vars

\* C5 witness: a Close() on a manager with a running demux goroutine has
\* returned the feed's error.
C5_Witness ==
  /\ closeLog # << >>
  /\ Last(closeLog) = [init |-> TRUE, unsub |-> TRUE, val |-> "errB"]
  /\ feed.lastUnsub = "errB"
  /\ \E t \in DOMAIN task : task[t].pc = "loop"


\* an event whose processing fails, as the claims list the failures: payload
\* type mismatch, resolver error, address conversion error, height conversion
\* error, log-decode error
Faulty(ev) ==
  IF ev.kind = "block"
  THEN ev.sh.data # "NewBlock" \/ ev.sh.resolver = "err" \/ ev.sh.bech32 = "err"
  ELSE ev.sh.hasHash /\ (ev.sh.data # "Tx" \/ ev.sh.height = "err" \/ ev.sh.decode = "err")

\* an event that is to be appended
Valid(ev) ==
  IF ev.kind = "block"
  THEN ev.sh.data = "NewBlock" /\ ev.sh.resolver = "ok" /\ ev.sh.bech32 = "ok"
  ELSE ev.sh.hasHash /\ ev.sh.data = "Tx" /\ ev.sh.height = "ok" /\ ev.sh.decode = "ok"

SomeFaultyIn(log) == \E i \in 1..Len(log) : Faulty(log[i].ev)

\* C6: the demux step that receives a failing event appends nothing to any
\* stream and leaves the goroutine in its loop with both queues as they were;
\* a valid event received after a failing one is appended.
C6_FaultIsolation ==
  [][consumed' # consumed =>
       LET e == Last(consumed').ev IN
       /\ Faulty(e) => UNCHANGED <<hdrObjs, logObjs, pendingTxStream, task>>
       /\ (Valid(e) /\ SomeFaultyIn(consumed)) =>
            /\ \A t \in DOMAIN task : task'[t].pc = "loop"
            /\ IF e.kind = "block"
               THEN StreamItems(hdrObjs'[headerStream]) =
                      Append(StreamItems(hdrObjs[headerStream]), [block |-> e.id])
               ELSE StreamLen(logObjs'[logStream]) =
                      StreamLen(logObjs[logStream]) + e.sh.nlogs]_vars

\* C6 witness: a transaction whose logs failed to decode was received, then a
\* valid transaction, whose two logs are in the log stream.
C6_Witness ==
  /\ Len(consumed) = 2
  /\ consumed[1].ev.kind = "tx" /\ consumed[1].ev.sh.decode = "err"
  /\ consumed[1].out = "decodeFailed"
  /\ consumed[2].ev.kind = "tx" /\ Valid(consumed[2].ev) /\ consumed[2].ev.sh.nlogs = 2
  /\ StreamLen(logObjs[logStream]) = 2
  /\ \A t \in DOMAIN task : task[t].pc = "loop"

\* C7: a transaction event without the EVM transaction-hash attribute is
\* dropped before its payload is looked at: nothing is appended to any stream,
\* no type mismatch is reported and the decoder is not called.
C7_NonEvmIgnored ==
  [][(consumed' # consumed /\ Last(consumed').ev.kind = "tx"
        /\ ~Last(consumed').ev.sh.hasHash)
       => /\ Last(consumed').out = "ignored"
          /\ UNCHANGED <<hdrObjs, logObjs, pendingTxStream>>]_vars

\* C7 witness: two events without the attribute were received, one with a
\* decodable transaction payload and one with a payload of another type, and
\* the log stream is empty.
C7_Witness ==
  /\ Len(consumed) = 2
  /\ \A i \in 1..2 : consumed[i].ev.kind = "tx" /\ ~consumed[i].ev.sh.hasHash
  /\ \E i \in 1..2 : consumed[i].ev.sh.data = "Tx"
  /\ \E i \in 1..2 : consumed[i].ev.sh.data = "Other"
  /\ logStream # Nil /\ StreamLen(logObjs[logStream]) = 0

RECURSIVE CountHeaders(_)
CountHeaders(log) ==
  IF log = << >> THEN 0
  ELSE (IF Head(log).ev.kind = "block" /\ Valid(Head(log).ev) THEN 1 ELSE 0)
         + CountHeaders(Tail(log))

RECURSIVE SumLogs(_)
SumLogs(log) ==
  IF log = << >> THEN 0
  ELSE (IF Head(log).ev.kind = "tx" /\ Valid(Head(log).ev) THEN Head(log).ev.sh.nlogs ELSE 0)
         + SumLogs(Tail(log))

\* C8: after the demux loop has received any sequence of events, the header
\* stream holds one item per new-block event that resolved, the log stream
\* holds as many items as the decoded EVM transactions carried logs, and no
\* demux step changes the pending-tx stream.
C8_Accounting ==
  /\ [](/\ \A o \in DOMAIN hdrObjs : StreamLen(hdrObjs[o]) = CountHeaders(consumed)
        /\ \A o \in DOMAIN logObjs : StreamLen(logObjs[o]) = SumLogs(consumed)
        /\ consumed # << >> => headerStream # Nil /\ logStream # Nil)
  /\ [][consumed' # consumed => pendingTxStream' = pendingTxStream]_vars

\* C8 witness: one new-block event, then one transaction event with two
\* logs: header length 1, log length 2, pending-tx length 0.
C8_Witness ==
  /\ Len(consumed) = 2
  /\ consumed[1].ev.kind = "block" /\ consumed[1].out = "added"
  /\ consumed[2].ev.kind = "tx" /\ consumed[2].out = "added" /\ consumed[2].ev.sh.nlogs = 2
  /\ StreamLen(hdrObjs[headerStream]) = 1
  /\ StreamLen(logObjs[logStream]) = 2
  /\ StreamLen(pendingTxStream) = 0

\* C9: ListenPendingTx(hash) appends that one hash to the pending-tx stream,
\* in call order, and changes nothing else in any state of the manager;
\* Subscribe requests come only from a caller inside initSubscriptions, and
\* none has been issued while the header stream is absent.
C9_PendingIndependent ==
  /\ [](/\ StreamItems(pendingTxStream) = ingested
        /\ headerStream = Nil =>
             feed.subBlocks = 0 /\ feed.subEvm = 0 /\ DOMAIN task = {})
  /\ [][/\ ingested' # ingested =>
             /\ \E h \in Hashes : ingested' = Append(ingested, h)
             /\ StreamItems(pendingTxStream') = ingested'
             /\ UNCHANGED <<headerStream, logStream, hdrObjs, logObjs, wg, feedVars,
                            task, pc>>
        /\ (feed'.subBlocks # feed.subBlocks \/ feed'.subEvm # feed.subEvm) =>
             \E c \in Callers : pc[c] \in {"subBlocks", "subEvm"}]_vars

\* C9 witness: two different hashes were ingested into a manager that has a
\* demux goroutine and on which Close() has returned nil.
C9_Witness ==
  /\ Len(ingested) = 2 /\ ingested[1] # ingested[2]
  /\ StreamItems(pendingTxStream) = ingested
  /\ DOMAIN task # {}
  /\ closeLog # << >> /\ Last(closeLog).init /\ Last(closeLog).val = "nil"

LastN(seq, n) == SubSeq(seq, Len(seq) - n + 1, Len(seq))

\* C10 as stated: after any Add the stream holds at most capacity items, and
\* they are the most recently added capacity items (all items while no more
\* than capacity were added).
C10_MostRecentCapacity ==
  /\ StreamLen(st) <= st.capacity
  /\ StreamItems(st) = LastN(appended, Min(Len(appended), st.capacity))

\* the items that whole-segment eviction has dropped once total were added
Evicted(total, segmentSize, capacity) ==
  IF total <= capacity THEN 0
  ELSE segmentSize * ((total - capacity + segmentSize - 1) \div segmentSize)

\* C10 as amended: after any Add the stream holds at most capacity items; they
\* are the most recently added ones, all of them while no more than capacity
\* were added, and otherwise those left after dropping the fewest whole
\* segments that bring the stream back to capacity (more than capacity minus
\* segmentSize items).
C10_BoundedRetention ==
  /\ StreamLen(st) <= st.capacity
  /\ st.next = Len(appended)
  /\ StreamLen(st) = Len(appended) - Evicted(Len(appended), st.segmentSize, st.capacity)
  /\ StreamItems(st) = LastN(appended, StreamLen(st))
  /\ Len(appended) > st.capacity => StreamLen(st) > st.capacity - st.segmentSize

\* C10 witness: segmentSize 2, capacity 4, five items added: three are kept.
C10_Witness ==
  /\ st.segmentSize = 2 /\ st.capacity = 4
  /\ Len(appended) = 5
  /\ StreamLen(st) = 3
  /\ StreamItems(st) = LastN(appended, 3)


\* C11: a ReadFrom at a position older than the oldest retained item returns
\* at once, starting at the oldest retained item, the items appended at the
\* positions it reports and none that was evicted, and the returned position
\* lies past them.
C11_ResumeFromEviction ==
  (rd.reads > 0 /\ rd.req < rd.first)
    => /\ rd.start = rd.first
       /\ rd.items # << >>
       /\ rd.items = SubSeq(appended, rd.start + 1, rd.start + Len(rd.items))
       /\ rd.pos = rd.start + Len(rd.items)
       /\ rd.pos > rd.req

\* C11 witness: segmentSize 2, capacity 4, six items appended one position
\* after the other, then ReadFrom(0) returns items 3..6 from position 2.
C11_Witness ==
  /\ st.segmentSize = 2 /\ st.capacity = 4
  /\ Len(appended) = 6
  /\ rd.reads = 1 /\ rd.req = 0 /\ rd.first = 2 /\ rd.start = 2
  /\ rd.items = SubSeq(appended, 3, 6)
  /\ rd.pos = 6


\* C12: while no read of the reader has jumped over evicted items, the items
\* of its successive ReadFrom calls, each resumed at the position the one
\* before returned, are together the items appended so far up to its cursor,
\* in the order the Add calls took effect; the retained items are the newest
\* of that order, so a batch is never torn, repeated or reordered.
C12_OrderPreserved ==
  /\ StreamItems(st) = LastN(appended, StreamLen(st))
  /\ rd.pos <= Len(appended)
  /\ ~rd.jumped => rd.got = SubSeq(appended, 1, rd.pos)

\* C12 witness: two reads without a jump, the second resumed where the first
\* ended and returning two different items, which together have returned
\* everything appended, three items or more.
C12_Witness ==
  /\ rd.reads = 2 /\ ~rd.jumped
  /\ Len(rd.got) >= 3
  /\ Len(rd.items) = 2 /\ rd.items[1] # rd.items[2]
  /\ rd.got = appended


\* the demux task t is past its loop
Exiting(t) == task[t].pc \in {"deferred", "unsub", "exited"}

\* C13: a demux task is past its loop, and so at or past its exit-time
\* UnsubscribeAll, only when the feed has closed both of its queues and it has
\* seen both closures; the step that records one closure leaves the other
\* channel as it was; and a task still in its loop with one channel nil and an
\* event waiting on the other can take that event.
C13_ExitOnlyBothClosed ==
  /\ [](\A t \in DOMAIN task :
          /\ Exiting(t) =>
               /\ chBlocks[t].closed /\ chLogs[t].closed
               /\ chBlocks[t].q = << >> /\ chLogs[t].q = << >>
               /\ task[t].chBlocks = "nil" /\ task[t].chLogs = "nil"
          /\ task[t].chBlocks = "nil" => chBlocks[t].closed
          /\ task[t].chLogs = "nil" => chLogs[t].closed
          /\ (task[t].pc = "loop" /\ task[t].chBlocks = "nil" /\ chLogs[t].q # << >>)
               => ENABLED DemuxLog(t)
          /\ (task[t].pc = "loop" /\ task[t].chLogs = "nil" /\ chBlocks[t].q # << >>)
               => ENABLED DemuxBlock(t))
  /\ [][\A t \in DOMAIN task :
          /\ (task[t].chBlocks = "open" /\ task'[t].chBlocks = "nil")
               => task'[t].chLogs = task[t].chLogs
          /\ (task[t].chLogs = "open" /\ task'[t].chLogs = "nil")
               => task'[t].chBlocks = task[t].chBlocks
          /\ (~Exiting(t) /\ Exiting(t)')
               => task[t].chBlocks = "nil" \/ task[t].chLogs = "nil"]_vars

\* C13 witness: the task has recorded the closure of the new-block queue, is
\* still in its loop with the transaction queue open, and has since taken a
\* transaction event from it and added its logs.
C13_Witness ==
  \E t \in DOMAIN task :
    /\ task[t].pc = "loop" /\ task[t].chBlocks = "nil" /\ task[t].chLogs = "open"
    /\ ~chLogs[t].closed
    /\ \E i \in 1..Len(consumed) :
         /\ consumed[i].ev.kind = "tx" /\ consumed[i].solo /\ consumed[i].out = "added"
    /\ StreamLen(logObjs[logStream]) > 0


\* every demux task has ended
AllExited == \A t \in DOMAIN task : task[t].pc = "exited"

\* C14: once the UnsubscribeAll of a Close() has succeeded, the call returns
\* and every demux task ends, given that the feed closes the queues of the
\* cancelled subscriptions and the scheduler runs the task and the caller; and
\* a caller parked in Wait always has a task that has yet to call wg.Done().
C14_ShutdownLiveness ==
  /\ \A c \in Callers : (pc[c] = "closeWait") ~> (pc[c] = "idle")
  /\ \A c \in Callers : (pc[c] = "closeWait") ~> AllExited
  /\ [](\A c \in Callers :
          pc[c] = "closeBlocked"
            => /\ wg.counter > 0
               /\ \E t \in DOMAIN task : task[t].pc \in {"loop", "deferred"})

\* C14 witness: a Close() that was parked in Wait has been woken by the
\* wg.Done() of a task that took an event and saw both queues closed after the
\* UnsubscribeAll of that Close().
C14_Witness ==
  /\ \E c \in Callers : pc[c] = "closeWoken" /\ cur[c].unsub
  /\ wg.counter = 0
  /\ \E t \in DOMAIN task : task[t].pc \in {"unsub", "exited"}
  /\ \E i \in 1..Len(consumed) : consumed[i].out = "added"


\* caller c has left initSubscriptions through a failed Subscribe
SetupFailed(c) ==
  /\ c \in DOMAIN logObjs
  /\ pc[c] \in {"idle", "return"}
  /\ c \notin DOMAIN chBlocks \/ c \notin DOMAIN chLogs

\* C15: a failed first Subscribe panics with no second Subscribe, no
\* UnsubscribeAll and no task; a failed second Subscribe leads to one
\* UnsubscribeAll and then the panic, with no task; and a caller whose setup
\* failed never has a task, and nothing is ever added to its streams.
C15_SetupFailureFatal ==
  /\ [][\A c \in Callers :
          /\ (pc[c] = "subBlocks" /\ pc'[c] # "subBlocks" /\ chBlocks' = chBlocks)
               => /\ pc'[c] = "idle" /\ ret'.op = cur[c].op /\ ret'.panic
                  /\ feed'.subEvm = feed.subEvm /\ feed'.unsubs = feed.unsubs
                  /\ task' = task
          /\ (pc[c] = "subEvm" /\ pc'[c] # "subEvm" /\ chLogs' = chLogs)
               => pc'[c] = "subFailed" /\ task' = task
          /\ (pc[c] = "subFailed" /\ pc'[c] # "subFailed")
               => /\ pc'[c] = "idle" /\ ret'.op = cur[c].op /\ ret'.panic
                  /\ feed'.unsubs = feed.unsubs + 1
                  /\ task' = task]_vars
  /\ [](\A c \in Callers :
          SetupFailed(c)
            => /\ c \notin DOMAIN task
               /\ hdrObjs[c].next = 0 /\ logObjs[c].next = 0)

\* C15 witness: the second Subscribe failed, UnsubscribeAll was issued, the
\* call panicked; the feed has put a valid event on the queue of the first
\* subscription, and no task exists to take it.
C15_Witness ==
  /\ SetupFailed(1) /\ ret.panic
  /\ feed.subBlocks = 1 /\ feed.subEvm = 1 /\ feed.unsubs = 1
  /\ 1 \in DOMAIN chBlocks /\ chBlocks[1].q # << >>
  /\ BlockOutcome(Head(chBlocks[1].q)) = "added"
  /\ DOMAIN task = {}
  /\ hdrObjs[1].next = 0


\* the number of logs the decoder produced for the transaction event id
NLogs(id) ==
  LET i == CHOOSE i \in 1..Len(consumed) : consumed[i].ev.id = id
  IN consumed[i].ev.sh.nlogs

\* C16: the demux step of a decoded transaction adds all of its logs, in
\* decoder order, in one Add; so in every state the log stream is a run of
\* whole batches, each the logs 1..n of one transaction, the batches in the
\* order the feed delivered the transactions; and the headers are in the
\* order the feed delivered the new-block events.
C16_BatchesOrdered ==
  /\ [][(consumed' # consumed /\ Last(consumed').ev.kind = "tx"
           /\ Valid(Last(consumed').ev))
          => LET e == Last(consumed').ev IN
             /\ StreamItems(logObjs'[logStream]) =
                  StreamItems(logObjs[logStream])
                    \o [i \in 1..e.sh.nlogs |-> [tx |-> e.id, index |-> i]]
             /\ hdrObjs' = hdrObjs]_vars
  /\ [](logStream # Nil =>
          LET L == StreamItems(logObjs[logStream])
              H == StreamItems(hdrObjs[headerStream])
          IN /\ \A k \in 1..(Len(H) - 1) : H[k].block < H[k + 1].block
             /\ L # << >> => L[1].index = 1 /\ Last(L).index = NLogs(Last(L).tx)
             /\ \A k \in 1..(Len(L) - 1) :
                  \/ L[k].tx = L[k + 1].tx /\ L[k + 1].index = L[k].index + 1
                  \/ /\ L[k].tx < L[k + 1].tx
                     /\ L[k].index = NLogs(L[k].tx)
                     /\ L[k + 1].index = 1)

\* C16 witness: two decoded transactions with two logs each were received;
\* the log stream holds logs 1, 2 of the first, then logs 1, 2 of the second.
C16_Witness ==
  /\ Len(consumed) = 2
  /\ \A i \in 1..2 : consumed[i].ev.kind = "tx" /\ consumed[i].out = "added"
                     /\ consumed[i].ev.sh.nlogs = 2
  /\ StreamItems(logObjs[logStream]) =
       <<[tx |-> consumed[1].ev.id, index |-> 1], [tx |-> consumed[1].ev.id, index |-> 2],
         [tx |-> consumed[2].ev.id, index |-> 1], [tx |-> consumed[2].ev.id, index |-> 2]>>
  /\ consumed[1].ev.id < consumed[2].ev.id


\* a Close() on an initialized manager has returned
ClosedInit == \E i \in 1..Len(closeLog) : closeLog[i].init

\* C17: the stream fields, once set, are never reset or replaced, and at most
\* one demux task is ever started; and once a Close() on an initialized
\* manager has returned, no step issues a Subscribe, creates a stream or
\* starts a task, and an accessor that returns hands out the stream object
\* that was there before the Close().
C17_ClosedTerminal ==
  /\ [][/\ headerStream # Nil => headerStream' = headerStream
        /\ logStream # Nil => logStream' = logStream
        /\ ClosedInit =>
             /\ feed'.subBlocks = feed.subBlocks /\ feed'.subEvm = feed.subEvm
             /\ DOMAIN task' = DOMAIN task
             /\ DOMAIN hdrObjs' = DOMAIN hdrObjs /\ DOMAIN logObjs' = DOMAIN logObjs
             /\ \A c \in Callers : pc'[c] \notin {"newHeader", "newLog", "subBlocks",
                                                   "subEvm", "subFailed", "go"}
             /\ \A c \in Callers :
                  (pc[c] = "return" /\ pc'[c] = "idle") =>
                    /\ ~ret'.panic /\ ret'.op = cur[c].op
                    /\ ret'.val = IF ret'.op = "HeaderStream" THEN headerStream
                                  ELSE logStream]_vars
  /\ [](/\ Cardinality(DOMAIN task) <= 1
        /\ ClosedInit => headerStream # Nil)

\* C17 witness: after a Close() that unsubscribed and returned nil, with the
\* task ended, LogStream() has passed the check of initSubscriptions and is
\* about to return the log stream; one Subscribe per query was ever issued.
C17_Witness ==
  /\ closeLog # << >> /\ Last(closeLog).init /\ Last(closeLog).val = "nil"
  /\ pc[1] = "return" /\ cur[1].op = "LogStream"
  /\ logStream # Nil
  /\ feed.subBlocks = 1 /\ feed.subEvm = 1
  /\ DOMAIN task = {1} /\ task[1].pc = "exited"


\* C18: a HeaderStream() or LogStream() call that returns, returns a stream
\* and never nil, whatever the other callers are doing.
C18_NeverNil ==
  (ret.op \in {"HeaderStream", "LogStream"} /\ ~ret.panic) => ret.val # Nil

\* C19: once a Close() that unsubscribed has returned nil, the feed holds no
\* active subscription of the manager and no caller is about to start a task.
C19_NothingOutlivesClose ==
  (closeLog # << >> /\ Last(closeLog).unsub /\ Last(closeLog).val = "nil")
    => /\ \A x \in DOMAIN chBlocks : ~chBlocks[x].active
       /\ \A x \in DOMAIN chLogs : ~chLogs[x].active
       /\ \A c \in Callers : pc[c] # "go"

\* C20: after a stream accessor has panicked on a failed Subscribe the manager
\* is uninitialized: both stream fields are nil, so the next accessor call
\* sets up again and Close() returns without an UnsubscribeAll.
C20_FailedSetupUninit ==
  ret.panic => headerStream = Nil /\ logStream = Nil

====
